---- MODULE Spec2Model ----
(***************************************************************************)
(* Model of portfolio/src/components/AnimatedBackground.tsx: the Galaxy    *)
(* component (three point-set generation loops, geometry construction and  *)
(* the useFrame rotation callback) and the MilkyWayGalaxy Canvas/Suspense  *)
(* wrapper that mounts it.                                                 *)
(*                                                                         *)
(* Numbers.  Every JavaScript number of the generator is a fixed-point     *)
(* integer in units of 1/Scale (0.000001).  Math.pow is within 0.000005 of *)
(* the library's value over [0,1], and a coordinate of a sample within     *)
(* 0.0001.  Math.random() returns a multiple of 1/Scale in [0,1).          *)
(* Rotation angles are integers in units of 1/RotScale (0.0001 rad).       *)
(*                                                                         *)
(* Two specifications.  LoopSpec is one run of the three loops (lines      *)
(* 36-144), iteration by iteration: every call of Math.random() returns    *)
(* any of the values of the call listed under the bounds, independently of *)
(* every other call, and the state holds what the iteration at hand        *)
(* pushes and the lengths of the six arrays.  Spec is the life of the      *)
(* mounted component: calls of Galaxy, React's commits, the texture fetch, *)
(* frames and unmount.  In Spec a call that returns runs the loops to      *)
(* their end in one step; a geometry is known by the call that built it    *)
(* and by the lengths of its two arrays, whatever numbers the loops drew.  *)
(***************************************************************************)
EXTENDS Integers, Sequences, FiniteSets

(***************************************************************************)
(* Bounds of the model.                                                    *)
(***************************************************************************)
\* Loop bounds of the three generation loops.  The source sets them to
\* 25000, 8000 and 5000 (lines 13, 18, 23); the model runs the same loops
\* over a few iterations.
armParticlesCount == 8
barParticlesCount == 3
coreParticlesCount == 2
\* Number of host frames and of calls of the Galaxy function explored.
MaxFrames == 3
MaxRenders == 4
\* LoopSpec: the values a call of Math.random() returns, in units of
\* 1/Scale.  DrawValues, for a call whose draw becomes a radius or is
\* compared with a probability, holds the two sides of every threshold of
\* the code (0.01 of line 88, 0.7 of line 69, 0.0576 and 0.36, the draws
\* whose radius is 1.2 and 3 on lines 63, 66 and 88), the two smallest
\* draws and the largest one.  SpreadValues, for a call whose draw is only
\* scaled into an angle, an offset or a colour channel, holds the two ends
\* and the middle of the range; the x draw of the bar is any value of
\* either set.  Every expression of the loops is monotone in each draw
\* between two neighbouring values of its set, apart from the sine and
\* cosine of an angle.
DrawValues ==
  { 0, 1, 9999, 10000, 57599, 57600, 359999, 360000, 699999, 700000,
    999999 }
SpreadValues == { 0, 500000, 999999 }

(***************************************************************************)
(* Fixed-point arithmetic.  Products and quotients are computed on the     *)
(* two halves of a number (below and above 0.001) so that no intermediate  *)
(* result leaves the 32-bit integers.                                      *)
(***************************************************************************)
Scale == 1000000
RotScale == 10000

Abs(a) == IF a < 0 THEN -a ELSE a

Hi(a) == a \div 1000
Lo(a) == a % 1000

\* The cross terms of a * b, in units of 0.001 * 1/Scale.
Cross(a, b) == Hi(a) * Lo(b) + Lo(a) * Hi(b)

\* floor(a * b / Scale) for a, b >= 0.
MulFloor(a, b) ==
  Hi(a) * Hi(b) + (Cross(a, b) + (Lo(a) * Lo(b)) \div 1000) \div 1000

\* TRUE when a * b is a multiple of Scale, for a, b >= 0.
MulExact(a, b) ==
  ((Cross(a, b) % 1000) * 1000 + Lo(a) * Lo(b)) % Scale = 0

\* a * b on fixed-point numbers, rounded toward zero.
FMul(a, b) ==
  IF (a < 0) = (b < 0) THEN MulFloor(Abs(a), Abs(b))
  ELSE -MulFloor(Abs(a), Abs(b))

\* a * b on non-negative fixed-point numbers, rounded up.
CMul(a, b) == IF MulExact(a, b) THEN MulFloor(a, b) ELSE MulFloor(a, b) + 1

\* Long division: k more pairs of decimal digits of r / b after quotient q.
RECURSIVE DivDigits(_, _, _, _)
DivDigits(q, r, b, k) ==
  IF k = 0 THEN q
  ELSE DivDigits(q * 100 + (r * 100) \div b, (r * 100) % b, b, k - 1)

\* a / b on fixed-point numbers, b > 0, rounded toward zero.
FDiv(a, b) ==
  IF a < 0 THEN -DivDigits(Abs(a) \div b, Abs(a) % b, b, 3)
  ELSE DivDigits(a \div b, a % b, b, 3)

\* Math.PI, Math.PI * 2 and Math.PI / 2.
PI == 3141593
TwoPI == 6283185
HalfPI == 1570796

\* Math.pow(a, 0.5) for a in [0,1]: the largest r with r * r <= a.
RECURSIVE SqrtSearch(_, _, _)
SqrtSearch(a, lo, hi) ==
  IF lo = hi THEN lo
  ELSE IF CMul((lo + hi + 1) \div 2, (lo + hi + 1) \div 2) <= a
         THEN SqrtSearch(a, (lo + hi + 1) \div 2, hi)
         ELSE SqrtSearch(a, lo, (lo + hi + 1) \div 2 - 1)

Sqrt(a) == SqrtSearch(a, 0, Scale)

\* r^5 on a fixed-point number in [0,1], rounded up at every product.
Pow5Up(r) == CMul(CMul(CMul(CMul(r, r), r), r), r)

\* The largest r in [lo, hi] with r^5 <= a, for a in (1/32, 1].
RECURSIVE FifthRootSearch(_, _, _)
FifthRootSearch(a, lo, hi) ==
  IF lo = hi THEN lo
  ELSE IF Pow5Up((lo + hi + 1) \div 2) <= a
         THEN FifthRootSearch(a, (lo + hi + 1) \div 2, hi)
         ELSE FifthRootSearch(a, lo, (lo + hi + 1) \div 2 - 1)

\* Math.pow(a, 0.2) for a in [0,1].  An argument of at most 1/32 is
\* multiplied by 32 = 2^5 and its root halved, so that the search runs on
\* a root above 0.5, where the rounding of the fifth power is below
\* 0.00002 of it.
RECURSIVE FifthRoot(_)
FifthRoot(a) ==
  IF a = 0 THEN 0
  ELSE IF 32 * a <= Scale THEN FifthRoot(32 * a) \div 2
  ELSE FifthRootSearch(a, 0, Scale)

\* Math.pow(a, 0.5), Math.pow(a, 1.5), Math.pow(a, 1.2), Math.pow(a, 0.3)
\* for a in [0,1]: a^1.5 = a * a^0.5, a^1.2 = a * a^0.2,
\* a^0.3 = a^0.2 * (a^0.2)^0.5.
Pow05(a) == Sqrt(a)
Pow15(a) == FMul(a, Sqrt(a))
Pow12(a) == FMul(a, FifthRoot(a))
PowHalfMore(t) == FMul(t, Sqrt(t))
Pow03(a) == PowHalfMore(FifthRoot(a))

\* The Taylor series of cos from the term of degree 2k on: each term is
\* the one before times -t^2 / ((2k - 1) * 2k).
RECURSIVE CosTerms(_, _, _, _)
CosTerms(term, t2, k, sign) ==
  IF k > 8 \/ term = 0 THEN 0
  ELSE sign * (FMul(term, t2) \div ((2 * k - 1) * 2 * k))
         + CosTerms(FMul(term, t2) \div ((2 * k - 1) * 2 * k), t2, k + 1, -sign)

\* Math.cos on [0, pi/2].
CosK(t) == Scale + CosTerms(Scale, FMul(t, t), 1, -1)

\* Math.cos on any angle, reduced to [0, 2 pi).
CosReduced(r) ==
  IF r <= HalfPI THEN CosK(r)
  ELSE IF r <= PI THEN -CosK(PI - r)
  ELSE IF r <= PI + HalfPI THEN -CosK(r - PI)
  ELSE CosK(TwoPI - r)

Cos(a) == CosReduced(a % TwoPI)

\* Math.sin(a) = cos(a - pi/2).
Sin(a) == Cos(a + TwoPI - HalfPI)

\* Math.asin(s) for s in [0, sin(pi/4)]: the smallest phi with
\* sin(phi) >= s.
RECURSIVE AsinSearch(_, _, _)
AsinSearch(s, lo, hi) ==
  IF lo = hi THEN lo
  ELSE IF Sin((lo + hi) \div 2) >= s
         THEN AsinSearch(s, lo, (lo + hi) \div 2)
         ELSE AsinSearch(s, (lo + hi) \div 2 + 1, hi)

Asin(s) == AsinSearch(s, 0, HalfPI \div 2 + 1)

\* Math.acos(c) for c in [-1,1], by the half-angle formula:
\* acos(c) = 2 asin(sqrt((1 - c) / 2)) for c >= 0, pi - acos(-c) for c < 0.
Acos(c) ==
  IF c >= 0 THEN 2 * Asin(Sqrt((Scale - c) \div 2))
  ELSE PI - 2 * Asin(Sqrt((Scale + c) \div 2))

(***************************************************************************)
(* Math.random(): the draws of an iteration, one per call, in the order of *)
(* the calls.                                                              *)
(***************************************************************************)
\* The draw of the call after n calls, on a sequence of draws.
Draw(draws, n) == draws[n + 1]

(***************************************************************************)
(* Galaxy structure constants (lines 28-33).                               *)
(***************************************************************************)
arms == 4
spiralStrength == 1800000
diskRadius == 5000000
barLength == 2500000
barWidth == 600000
coreRadius == 700000

\* new Color(r, g, b): the three channels as given.
Color(r, g, b) == [r |-> r, g |-> g, b |-> b]

(***************************************************************************)
(* Spiral arms, one iteration of the loop of lines 36-93.  i is the loop   *)
(* index and n the number of Math.random() calls made so far; the result   *)
(* holds the locals of the iteration and the number of calls after it.     *)
(***************************************************************************)
\* BandColor with the blue variation drawn from [0.9, 1.1): 0.9 + U * 0.2.
BandColorWide(draws, radius, n) ==
  IF radius < 1200000
    THEN [starColor |-> Color(1000000, 900000, 700000), band |-> "inner",
          roll |-> -1, n |-> n]
  ELSE IF radius < 3000000
    THEN IF Draw(draws, n) < 700000
           THEN [starColor |->
                   Color(900000, 900000, 900000 + FMul(Draw(draws, n + 1), 200000)),
                 band |-> "mid", roll |-> Draw(draws, n), n |-> n + 2]
           ELSE [starColor |-> Color(1000000, 900000, 700000), band |-> "mid",
                 roll |-> Draw(draws, n), n |-> n + 1]
  ELSE [starColor |-> Color(1000000, 600000 + FMul(Draw(draws, n), 300000),
                            400000 + FMul(Draw(draws, n + 1), 300000)),
        band |-> "outer", roll |-> -1, n |-> n + 2]

\* Lines 63-85: the colour of the radius band, with the draws it consumes.
BandColor(draws, radius, n) ==
  IF radius < 1200000
    THEN [starColor |-> Color(1000000, 900000, 700000), band |-> "inner",
          roll |-> -1, n |-> n]
  ELSE IF radius < 3000000
    THEN LET roll == Draw(draws, n)
         IN  IF roll < 700000
               THEN LET blueVariation == 800000 + FMul(Draw(draws, n + 1), 200000)
                    IN  [starColor |-> Color(900000, 900000, blueVariation),
                         band |-> "mid", roll |-> roll, n |-> n + 2]
               ELSE [starColor |-> Color(1000000, 900000, 700000), band |-> "mid",
                     roll |-> roll, n |-> n + 1]
  ELSE [starColor |-> Color(1000000, 600000 + FMul(Draw(draws, n), 300000),
                            400000 + FMul(Draw(draws, n + 1), 300000)),
        band |-> "outer", roll |-> -1, n |-> n + 2]

\* HotStar without the radius test.
HotStarAnyRadius(hot, radius, starColor) ==
  IF hot < 10000 THEN Color(700000, 800000, 1000000) ELSE starColor

\* Lines 87-90: the bright blue override.
HotStar(hot, radius, starColor) ==
  IF hot < 10000 /\ radius > 1200000 THEN Color(700000, 800000, 1000000) ELSE starColor

\* Branch without the modulo: the arm is the loop index.
BranchOfIndex(i) == i

\* Line 41: the arm of sample i.
Branch(i) == i % arms

\* Line 42: the base angle of an arm.
BaseAngle(branch) == FMul((branch * Scale) \div arms, PI) * 2

\* Line 49: the width of the jitter at this radius.
RandomFactor(radius) == 200000 + FMul(FDiv(radius, diskRadius), 600000)

\* Line 50: base angle + spiral offset + jitter.
Angle(branch, radius, jitterDraw) ==
  BaseAngle(branch) + FMul(radius, spiralStrength)
    + FMul(jitterDraw - 500000, RandomFactor(radius))

\* Line 55: the disk gets thinner toward the edge.
VerticalSpread(radius) ==
  FMul(120000, Pow15(Scale - FDiv(radius, diskRadius))) + 20000

\* Line 38: the radius of the draw.
ArmRadius(radiusDraw) == FMul(Pow05(radiusDraw), diskRadius)

\* Lines 41-58, given the branch and the angle: the locals of the position.
ArmPlaced(i, radius, branch, angle, yDraw) ==
  [i |-> i, radius |-> radius, branch |-> branch,
   baseAngle |-> BaseAngle(branch),
   angleOffset |-> FMul(radius, spiralStrength),
   randomFactor |-> RandomFactor(radius), angle |-> angle,
   x |-> FMul(Cos(angle), radius),
   y |-> FMul(yDraw - 500000, VerticalSpread(radius)),
   z |-> FMul(Sin(angle), radius)]

\* Lines 41-58, given the radius and the branch.
ArmOnBranch(i, radius, branch, jitterDraw, yDraw) ==
  ArmPlaced(i, radius, branch, Angle(branch, radius, jitterDraw), yDraw)

\* Lines 41-58, given the radius drawn on line 38.
ArmAtRadius(i, radius, jitterDraw, yDraw) ==
  ArmOnBranch(i, radius, Branch(i), jitterDraw, yDraw)

\* The locals of the iteration once every draw has been made: those of
\* the position p, the band colour bc and the override.
ArmLocals(p, bc, hot, n) ==
  [i |-> p.i, radius |-> p.radius, branch |-> p.branch,
   baseAngle |-> p.baseAngle, angleOffset |-> p.angleOffset,
   randomFactor |-> p.randomFactor, angle |-> p.angle,
   x |-> p.x, y |-> p.y, z |-> p.z,
   band |-> bc.band, roll |-> bc.roll, bandColor |-> bc.starColor,
   hot |-> hot, starColor |-> HotStar(hot, p.radius, bc.starColor), n |-> n]

\* Lines 87-92, given the band colour and the calls it made.
ArmColored(draws, p, bc) == ArmLocals(p, bc, Draw(draws, bc.n), bc.n + 1)

\* Lines 62-92, given the position; n calls have been made.
ArmBanded(draws, p, n) == ArmColored(draws, p, BandColor(draws, p.radius, n))

\* Lines 38-92: iteration i on a sequence of draws, from call n on.
ArmSample(draws, i, n) ==
  ArmBanded(draws,
            ArmAtRadius(i, ArmRadius(Draw(draws, n)), Draw(draws, n + 1),
                        Draw(draws, n + 2)),
            n + 3)

(***************************************************************************)
(* Central bar, one iteration of the loop of lines 96-121.                 *)
(***************************************************************************)
\* TaperFactor without Math.abs.
TaperFactorSigned(x) == Pow12(Scale - FDiv(x, barLength))

\* Lines 107-108.
TaperFactor(x) == Pow12(Scale - FDiv(Abs(x), barLength))

\* Lines 110-120, given x, y, z and the taper.
BarLocals(draws, i, n, x, y, z, taperFactor) ==
  [i |-> i, x |-> x, y |-> y, z |-> z,
   distFromCenter |-> FDiv(Abs(x), barLength),
   taperFactor |-> taperFactor,
   adjustedY |-> FMul(y, taperFactor), adjustedZ |-> FMul(z, taperFactor),
   r |-> 1000000,
   g |-> 800000 + FMul(Draw(draws, n + 3), 100000),
   b |-> 500000 + FMul(Draw(draws, n + 4), 200000),
   n |-> n + 5]

\* Lines 100-120, given the x drawn on line 98.
BarAtX(draws, i, n, x) ==
  BarLocals(draws, i, n, x,
            FMul(Draw(draws, n + 1) - 500000, 200000),
            FMul(Draw(draws, n + 2) - 500000, barWidth),
            TaperFactor(x))

BarSample(draws, i, n) ==
  BarAtX(draws, i, n, FMul(Draw(draws, n) - 500000, barLength) * 2)

(***************************************************************************)
(* Core, one iteration of the loop of lines 124-144.                       *)
(***************************************************************************)
\* Lines 132-143, given theta, phi and the radius.
CoreLocals(draws, i, n, theta, phi, radius) ==
  [i |-> i, theta |-> theta, phi |-> phi, radius |-> radius,
   x |-> FMul(FMul(radius, Sin(phi)), Cos(theta)),
   y |-> FMul(FMul(FMul(radius, Sin(phi)), Sin(theta)), 600000),
   z |-> FMul(radius, Cos(phi)),
   r |-> 1000000,
   g |-> 900000 + FMul(Draw(draws, n + 3), 100000),
   b |-> 700000 + FMul(Draw(draws, n + 4), 200000),
   n |-> n + 5]

CoreSample(draws, i, n) ==
  CoreLocals(draws, i, n,
             FMul(Draw(draws, n), PI) * 2,
             Acos(2 * Draw(draws, n + 1) - Scale),
             FMul(Pow03(Draw(draws, n + 2)), coreRadius))

(***************************************************************************)
(* The three loops.  Each iteration pushes one position triple and one     *)
(* colour triple; acc.samples keeps the locals of the iteration.           *)
(***************************************************************************)
EmptyAcc(n) == [positions |-> <<>>, colors |-> <<>>, samples |-> <<>>, n |-> n]

\* ArmPush with the colour push left out of the override branch.
ArmPushSkipsHot(acc, s) ==
  [positions |-> acc.positions \o <<s.x, s.y, s.z>>,
   colors |-> IF s.starColor = Color(700000, 800000, 1000000) THEN acc.colors
              ELSE acc.colors
                     \o <<s.starColor.r, s.starColor.g, s.starColor.b>>,
   samples |-> Append(acc.samples, s),
   n |-> s.n]

\* armPositions.push(x, y, z); armColors.push(starColor.r, .g, .b)
ArmPush(acc, s) ==
  [positions |-> acc.positions \o <<s.x, s.y, s.z>>,
   colors |-> acc.colors \o <<s.starColor.r, s.starColor.g, s.starColor.b>>,
   samples |-> Append(acc.samples, s),
   n |-> s.n]

\* barPositions.push(x, adjustedY, adjustedZ); barColors.push(r, g, b)
BarPush(acc, s) ==
  [positions |-> acc.positions \o <<s.x, s.adjustedY, s.adjustedZ>>,
   colors |-> acc.colors \o <<s.r, s.g, s.b>>,
   samples |-> Append(acc.samples, s),
   n |-> s.n]

\* corePositions.push(x, y, z); coreColors.push(r, g, b)
CorePush(acc, s) ==
  [positions |-> acc.positions \o <<s.x, s.y, s.z>>,
   colors |-> acc.colors \o <<s.r, s.g, s.b>>,
   samples |-> Append(acc.samples, s),
   n |-> s.n]

\* The numbers one push adds to an array: push(x, y, z) and
\* push(r, g, b) on lines 60, 92, 113, 120, 136 and 143.
itemsPerPush == 3

\* The length of an array after a loop of count iterations: every
\* iteration pushes once to it, on every branch.
ArrayLength(count) == count * itemsPerPush

\* new Float32BufferAttribute(array, 3), on an array of this length: count
\* is the number of items.
Float32BufferAttribute(length, itemSize) ==
  [length |-> length, itemSize |-> itemSize, count |-> length \div itemSize]

\* Lines 147-157: the BufferGeometry built by the run-th call of Galaxy
\* that ran the loops, with its position and color attributes on arrays of
\* these lengths.  Every call builds new objects.
BufferGeometry(run, positions, colors) ==
  [run |-> run,
   position |-> Float32BufferAttribute(positions, 3),
   color |-> Float32BufferAttribute(colors, 3)]

\* No geometry has been built.
NoGeometry == BufferGeometry(0, 0, 0)

\* Lines 147-157: the three geometries of the run-th call, on the six
\* arrays of lengths l.
Geometries(run, l) ==
  [armGeometry |-> BufferGeometry(run, l.armPositions, l.armColors),
   barGeometry |-> BufferGeometry(run, l.barPositions, l.barColors),
   coreGeometry |-> BufferGeometry(run, l.corePositions, l.coreColors)]

\* The lengths of the six arrays after the three loops (lines 36-144).
LoopLengths ==
  [armPositions |-> ArrayLength(armParticlesCount),
   armColors |-> ArrayLength(armParticlesCount),
   barPositions |-> ArrayLength(barParticlesCount),
   barColors |-> ArrayLength(barParticlesCount),
   corePositions |-> ArrayLength(coreParticlesCount),
   coreColors |-> ArrayLength(coreParticlesCount)]

(***************************************************************************)
(* State.                                                                  *)
(***************************************************************************)
VARIABLES
  texture,        \* useLoader's cache entry: "idle", "pending", "loaded", "failed"
  phase,          \* what the Suspense boundary of MilkyWayGalaxy shows
  armGeometry,    \* geometry of <points ref={galaxyRef}>
  barGeometry,    \* geometry of <points ref={centralBarRef}>
  coreGeometry,   \* geometry of <points ref={coreRef}>
  galaxyRef,      \* [current: attached?, rotationY: rotation.y of the Points]
  centralBarRef,
  coreRef,
  frameCallback,  \* TRUE once the useFrame callback is subscribed
  materialMap,    \* map of the three pointsMaterials
  renders,        \* calls of the Galaxy function
  generations,    \* runs of the three generation loops
  frames,         \* frames of the host render loop
  updates,        \* runs of the useFrame callback
  work,           \* what the last call of Galaxy returned, until React
                  \* commits it or drops it
  loop,           \* LoopSpec: the loop that runs: "arm", "bar", "core";
                  \* "done" after the three, "none" in Spec
  index,          \* LoopSpec: the loop index i
  iteration,      \* LoopSpec: what the body has pushed at this index, with
                  \* the locals of the iteration, until i++
  tally,          \* LoopSpec: the number of arm samples on each arm so far
  lengths         \* LoopSpec: the lengths of the six arrays

geometries == <<armGeometry, barGeometry, coreGeometry>>
refs == <<galaxyRef, centralBarRef, coreRef>>
loops == <<loop, index, iteration, tally, lengths>>
mounted == <<texture, phase, armGeometry, barGeometry, coreGeometry,
             galaxyRef, centralBarRef, coreRef, frameCallback, materialMap,
             renders, generations, frames, updates, work>>
vars == <<mounted, loops>>

\* No render waits for its commit.
NoWork == <<>>

\* The body of the loop has not run at this index.
NoIteration == <<>>

\* The six arrays are empty (lines 14-15, 19-20, 24-25).
NoLengths ==
  [armPositions |-> 0, armColors |-> 0, barPositions |-> 0, barColors |-> 0,
   corePositions |-> 0, coreColors |-> 0]

\* No sample on any arm.
NoTally == [b \in 0..(arms - 1) |-> 0]

\* useRef<Points>(null).
useRef == [current |-> FALSE, rotationY |-> 0]

\* rotation.y += 0.0002, in units of 1/RotScale.
rotationIncrement == 2

(***************************************************************************)
(* Mount: <Canvas><Suspense fallback={null}><Galaxy/>...  Nothing has been *)
(* rendered and the texture has not been requested yet.                    *)
(***************************************************************************)
Init ==
  /\ texture = "idle"
  /\ phase = "Loading"
  /\ armGeometry = NoGeometry
  /\ barGeometry = NoGeometry
  /\ coreGeometry = NoGeometry
  /\ galaxyRef = useRef
  /\ centralBarRef = useRef
  /\ coreRef = useRef
  /\ frameCallback = FALSE
  /\ materialMap = "none"
  /\ renders = 0
  /\ generations = 0
  /\ frames = 0
  /\ updates = 0
  /\ work = NoWork
  /\ loop = "none"
  /\ index = 0
  /\ iteration = NoIteration
  /\ tally = NoTally
  /\ lengths = NoLengths

Mounted == phase \in {"Loading", "Ready"}

(***************************************************************************)
(* A call of the Galaxy function (lines 6-212).                            *)
(***************************************************************************)
\* useLoader (line 10) has no texture yet: it starts the fetch if there is
\* none, throws the promise, and the Suspense boundary shows its fallback.
RenderSuspend ==
  /\ Mounted
  /\ renders < MaxRenders
  /\ texture \in {"idle", "pending"}
  /\ texture' = "pending"
  /\ renders' = renders + 1
  /\ UNCHANGED <<phase, geometries, refs, frameCallback, materialMap,
                 generations, frames, updates, work, loops>>

\* useLoader (line 10) rethrows the load error.  Suspense does not catch
\* errors and no error boundary encloses <Galaxy/> (lines 214-222), so the
\* error leaves the component tree and the tree is torn down.
RenderThrow ==
  /\ Mounted
  /\ renders < MaxRenders
  /\ texture = "failed"
  /\ phase' = "Crashed"
  /\ renders' = renders + 1
  /\ galaxyRef' = [galaxyRef EXCEPT !.current = FALSE]
  /\ centralBarRef' = [centralBarRef EXCEPT !.current = FALSE]
  /\ coreRef' = [coreRef EXCEPT !.current = FALSE]
  /\ frameCallback' = FALSE
  /\ UNCHANGED <<texture, geometries, materialMap, generations,
                 frames, updates, work, loops>>

\* The texture is there: the body runs to its return (lines 12-211).  The
\* three loops fill fresh arrays on the draws of Math.random and three new
\* geometries are built from them (lines 147-157).  The refs are not
\* attached and the callback given to useFrame is not subscribed yet: the
\* result waits for React's commit.
RenderReturn ==
  /\ Mounted
  /\ renders < MaxRenders
  /\ texture = "loaded"
  /\ work = NoWork
  /\ work' = << Geometries(generations + 1, LoopLengths) >>
  /\ renders' = renders + 1
  /\ generations' = generations + 1
  /\ UNCHANGED <<texture, phase, geometries, refs, frameCallback,
                 materialMap, frames, updates, loops>>

Render == RenderSuspend \/ RenderThrow \/ RenderReturn

(***************************************************************************)
(* React commits the returned elements (lines 172-211): the <points> get   *)
(* the geometries and the texture, the refs are attached, the useFrame     *)
(* callback is subscribed and the Suspense boundary shows its content.     *)
(***************************************************************************)
Commit ==
  /\ Mounted
  /\ work # NoWork
  /\ armGeometry' = work[1].armGeometry
  /\ barGeometry' = work[1].barGeometry
  /\ coreGeometry' = work[1].coreGeometry
  /\ galaxyRef' = [galaxyRef EXCEPT !.current = TRUE]
  /\ centralBarRef' = [centralBarRef EXCEPT !.current = TRUE]
  /\ coreRef' = [coreRef EXCEPT !.current = TRUE]
  /\ frameCallback' = TRUE
  /\ materialMap' = "disc.png"
  /\ phase' = "Ready"
  /\ work' = NoWork
  /\ UNCHANGED <<texture, renders, generations, frames, updates, loops>>

\* React drops a render it has not committed; it calls Galaxy again for
\* the next one.
Discard ==
  /\ Mounted
  /\ work # NoWork
  /\ work' = NoWork
  /\ UNCHANGED <<texture, phase, geometries, refs, frameCallback,
                 materialMap, renders, generations, frames, updates, loops>>

(***************************************************************************)
(* The texture fetch started by useLoader settles.                         *)
(***************************************************************************)
LoadResolve ==
  /\ texture = "pending"
  /\ texture' = "loaded"
  /\ UNCHANGED <<phase, geometries, refs, frameCallback, materialMap,
                 renders, generations, frames, updates, work, loops>>

LoadReject ==
  /\ texture = "pending"
  /\ texture' = "failed"
  /\ UNCHANGED <<phase, geometries, refs, frameCallback, materialMap,
                 renders, generations, frames, updates, work, loops>>

(***************************************************************************)
(* A frame of the Canvas render loop: it runs the subscribed useFrame      *)
(* callback (lines 160-170).                                               *)
(***************************************************************************)
\* Rotate with another increment: rotation.y += 0.0003.
RotateFaster(ref) ==
  IF ref.current
    THEN [ref EXCEPT !.rotationY = ref.rotationY + rotationIncrement + 1]
    ELSE ref

\* if (ref.current) ref.current.rotation.y += 0.0002
Rotate(ref) ==
  IF ref.current
    THEN [ref EXCEPT !.rotationY = ref.rotationY + rotationIncrement]
    ELSE ref

\* Frame with the arm buffers rebuilt by the callback.
FrameRegenerates ==
  /\ Mounted
  /\ frames < MaxFrames
  /\ frames' = frames + 1
  /\ IF frameCallback
       THEN /\ galaxyRef' = Rotate(galaxyRef)
            /\ centralBarRef' = Rotate(centralBarRef)
            /\ coreRef' = Rotate(coreRef)
            /\ updates' = updates + 1
            /\ armGeometry' = NoGeometry
       ELSE UNCHANGED <<refs, updates, armGeometry>>
  /\ UNCHANGED <<texture, phase, barGeometry, coreGeometry,
                 frameCallback, materialMap, renders, generations, work,
                 loops>>

Frame ==
  /\ Mounted
  /\ frames < MaxFrames
  /\ frames' = frames + 1
  /\ IF frameCallback
       THEN /\ galaxyRef' = Rotate(galaxyRef)
            /\ centralBarRef' = Rotate(centralBarRef)
            /\ coreRef' = Rotate(coreRef)
            /\ updates' = updates + 1
       ELSE UNCHANGED <<refs, updates>>
  /\ UNCHANGED <<texture, phase, geometries, frameCallback,
                 materialMap, renders, generations, work, loops>>

(***************************************************************************)
(* The host page removes <AnimatedBackground/>: refs are detached and the  *)
(* frame callback is unsubscribed.                                         *)
(***************************************************************************)
Unmount ==
  /\ Mounted
  /\ phase' = "Unmounted"
  /\ galaxyRef' = [galaxyRef EXCEPT !.current = FALSE]
  /\ centralBarRef' = [centralBarRef EXCEPT !.current = FALSE]
  /\ coreRef' = [coreRef EXCEPT !.current = FALSE]
  /\ frameCallback' = FALSE
  /\ work' = NoWork
  /\ UNCHANGED <<texture, geometries, materialMap, renders,
                 generations, frames, updates, loops>>

Next ==
  Render \/ Commit \/ Discard \/ LoadResolve \/ LoadReject \/ Frame \/ Unmount

Spec == Init /\ [][Next]_vars

(***************************************************************************)
(* LoopSpec: one run of the three loops (lines 36-144) in a call of Galaxy *)
(* that returns, one iteration at a time.  Every call of Math.random()     *)
(* returns any value of its set.  Of the six arrays the state keeps their  *)
(* lengths and what the iteration at hand appends.                         *)
(***************************************************************************)
\* The draws of a bar iteration (x, y, z, green, blue) and of a core
\* iteration (theta, the cosine of phi, radius, green, blue).  The x draw
\* of the bar, which decides the taper, is any value of either set: the
\* two ends, the centre and points between them on both sides.
BarDraws ==
  { <<x, y, z, g, b>> : x \in DrawValues \cup SpreadValues,
                        y \in SpreadValues,
                        z \in SpreadValues, g \in SpreadValues,
                        b \in SpreadValues }
CoreDraws ==
  { <<t, c, r, g, b>> : t \in SpreadValues, c \in SpreadValues,
                        r \in DrawValues, g \in SpreadValues,
                        b \in SpreadValues }

\* The body of Galaxy is entered with the texture loaded (line 10 returns)
\* and the arm loop starts at index 0 on empty arrays.
LoopInit ==
  /\ texture = "loaded"
  /\ phase = "Loading"
  /\ armGeometry = NoGeometry
  /\ barGeometry = NoGeometry
  /\ coreGeometry = NoGeometry
  /\ galaxyRef = useRef
  /\ centralBarRef = useRef
  /\ coreRef = useRef
  /\ frameCallback = FALSE
  /\ materialMap = "none"
  /\ renders = 0
  /\ generations = 0
  /\ frames = 0
  /\ updates = 0
  /\ work = NoWork
  /\ loop = "arm"
  /\ index = 0
  /\ iteration = NoIteration
  /\ tally = NoTally
  /\ lengths = NoLengths

\* The body of the arm loop at this index (lines 37-92): ArmSample on six
\* draws, each stage evaluated once its draws are chosen.  The radius,
\* the band draws and the override draw are any of DrawValues, the jitter
\* and the height draw any of SpreadValues; a band that makes fewer calls
\* leaves the last draws unused.
ArmIteration ==
  /\ loop = "arm"
  /\ index < armParticlesCount
  /\ iteration = NoIteration
  /\ \E radiusDraw \in DrawValues : \E radius \in {ArmRadius(radiusDraw)} :
     \E jitterDraw \in SpreadValues : \E yDraw \in SpreadValues :
     \E p \in {ArmAtRadius(index, radius, jitterDraw, yDraw)} :
     \E d4 \in DrawValues : \E d5 \in DrawValues : \E d6 \in DrawValues :
     \E s \in {ArmBanded(<<radiusDraw, jitterDraw, yDraw, d4, d5, d6>>, p, 3)} :
     \E acc \in {ArmPush(EmptyAcc(0), s)} :
       /\ iteration' = acc
       /\ lengths' =
            [lengths EXCEPT !.armPositions = @ + Len(acc.positions),
                            !.armColors = @ + Len(acc.colors)]
       /\ tally' = [b \in 0..(arms - 1) |->
                      IF s.branch = b THEN tally[b] + 1 ELSE tally[b]]
  /\ UNCHANGED <<mounted, loop, index>>

\* The body of the bar loop at this index (lines 97-120).
BarIteration ==
  /\ loop = "bar"
  /\ index < barParticlesCount
  /\ iteration = NoIteration
  /\ \E draws \in BarDraws :
     \E acc \in {BarPush(EmptyAcc(0), BarSample(draws, index, 0))} :
       /\ iteration' = acc
       /\ lengths' =
            [lengths EXCEPT !.barPositions = @ + Len(acc.positions),
                            !.barColors = @ + Len(acc.colors)]
  /\ UNCHANGED <<mounted, loop, index, tally>>

\* The body of the core loop at this index (lines 125-143).
CoreIteration ==
  /\ loop = "core"
  /\ index < coreParticlesCount
  /\ iteration = NoIteration
  /\ \E draws \in CoreDraws :
     \E acc \in {CorePush(EmptyAcc(0), CoreSample(draws, index, 0))} :
       /\ iteration' = acc
       /\ lengths' =
            [lengths EXCEPT !.corePositions = @ + Len(acc.positions),
                            !.coreColors = @ + Len(acc.colors)]
  /\ UNCHANGED <<mounted, loop, index, tally>>

\* i++ (lines 36, 96, 124).
LoopStep ==
  /\ iteration # NoIteration
  /\ index' = index + 1
  /\ iteration' = NoIteration
  /\ UNCHANGED <<mounted, loop, tally, lengths>>

\* i < armParticlesCount fails (line 36): the bar loop starts.
ArmExit ==
  /\ loop = "arm"
  /\ index = armParticlesCount
  /\ loop' = "bar"
  /\ index' = 0
  /\ UNCHANGED <<mounted, iteration, tally, lengths>>

\* i < barParticlesCount fails (line 96): the core loop starts.
BarExit ==
  /\ loop = "bar"
  /\ index = barParticlesCount
  /\ loop' = "core"
  /\ index' = 0
  /\ UNCHANGED <<mounted, iteration, tally, lengths>>

\* i < coreParticlesCount fails (line 124): the loops are over.
CoreExit ==
  /\ loop = "core"
  /\ index = coreParticlesCount
  /\ loop' = "done"
  /\ UNCHANGED <<mounted, index, iteration, tally, lengths>>

\* After the loops the body builds the three geometries on the arrays
\* (lines 147-157) and returns its elements (lines 172-211).
LoopReturn ==
  /\ loop = "done"
  /\ work = NoWork
  /\ work' = << Geometries(generations + 1, lengths) >>
  /\ renders' = renders + 1
  /\ generations' = generations + 1
  /\ UNCHANGED <<texture, phase, geometries, refs, frameCallback,
                 materialMap, frames, updates, loops>>

LoopNext ==
  \/ ArmIteration \/ BarIteration \/ CoreIteration \/ LoopStep
  \/ ArmExit \/ BarExit \/ CoreExit \/ LoopReturn

LoopSpec == LoopInit /\ [][LoopNext]_vars

(***************************************************************************)
(* Properties.                                                             *)
(***************************************************************************)
Warm == Color(1000000, 900000, 700000)
HotBlue == Color(700000, 800000, 1000000)

\* A result of the loops has been committed to the <points>.
Built == materialMap = "disc.png"

InUnit(array) == \A j \in 1..Len(array) : 0 <= array[j] /\ array[j] <= Scale

\* LoopSpec: the body of a loop has run at the index at hand, and the
\* locals of that iteration.
ArmDone == loop = "arm" /\ iteration # NoIteration
BarDone == loop = "bar" /\ iteration # NoIteration
CoreDone == loop = "core" /\ iteration # NoIteration
Star == iteration.samples[1]

\* The iterations of the loop at hand whose body has run.
BodiesRun == IF iteration = NoIteration THEN index ELSE index + 1

\* The iterations of a loop whose body has run: all of them once the loop
\* is over, none before it starts.
ArmBodies == IF loop = "arm" THEN BodiesRun ELSE armParticlesCount
BarBodies ==
  IF loop = "arm" THEN 0
  ELSE IF loop = "bar" THEN BodiesRun ELSE barParticlesCount
CoreBodies ==
  IF loop \in {"arm", "bar"} THEN 0
  ELSE IF loop = "core" THEN BodiesRun ELSE coreParticlesCount

\* C1: whatever the draws, every iteration pushes one triple to the
\* position array and one to the colour array of its region, on every
\* colour branch, so the two have the same length at every point and, once
\* the loops have run, 3 times the region's particle count; the geometries
\* built on them are those of a call that returns in Spec, each attribute
\* with as many items as the region has particles.
C1_BufferLengths ==
  /\ lengths.armPositions = 3 * ArmBodies
  /\ lengths.armColors = 3 * ArmBodies
  /\ lengths.barPositions = 3 * BarBodies
  /\ lengths.barColors = 3 * BarBodies
  /\ lengths.corePositions = 3 * CoreBodies
  /\ lengths.coreColors = 3 * CoreBodies
  /\ (iteration # NoIteration =>
        Len(iteration.positions) = 3 /\ Len(iteration.colors) = 3)
  /\ (loop = "done" =>
        /\ lengths.armPositions = ArrayLength(armParticlesCount)
        /\ lengths.armColors = 3 * armParticlesCount
        /\ lengths.barPositions = ArrayLength(barParticlesCount)
        /\ lengths.barColors = 3 * barParticlesCount
        /\ lengths.corePositions = ArrayLength(coreParticlesCount)
        /\ lengths.coreColors = 3 * coreParticlesCount)
  /\ (work # NoWork =>
        /\ work[1] = Geometries(1, LoopLengths)
        /\ work[1].armGeometry.position.count = armParticlesCount
        /\ work[1].armGeometry.color.count = armParticlesCount
        /\ work[1].barGeometry.position.count = barParticlesCount
        /\ work[1].barGeometry.color.count = barParticlesCount
        /\ work[1].coreGeometry.position.count = coreParticlesCount
        /\ work[1].coreGeometry.color.count = coreParticlesCount)

\* The last arm iteration took the override branch and the colour array is
\* as long as the position array, 3 times the particle count.
C1_Witness ==
  /\ ArmDone
  /\ index = armParticlesCount - 1
  /\ Star.starColor = HotBlue
  /\ Star.band = "mid" /\ Star.roll < 700000
  /\ lengths.armColors = 3 * armParticlesCount
  /\ lengths.armPositions = 3 * armParticlesCount

\* C2: whatever the draws of an iteration, an arm radius is in
\* [0, diskRadius], a core radius in [0, coreRadius], and the three colour
\* channels the iteration pushes, in any region, are in [0,1].
C2_Ranges ==
  /\ (ArmDone => 0 <= Star.radius /\ Star.radius <= diskRadius)
  /\ (CoreDone => 0 <= Star.radius /\ Star.radius <= coreRadius)
  /\ (iteration # NoIteration =>
        Len(iteration.colors) = 3 /\ InUnit(iteration.colors))

\* A core sample on the largest radius draw, at the top of its range, with
\* the largest green draw.
C2_Witness ==
  /\ CoreDone
  /\ Star.radius > coreRadius - 10
  /\ Star.g >= Scale - 1
  /\ iteration.colors[2] = Star.g

\* 2 pi in units of 1/RotScale.
RotTwoPI == TwoPI \div (Scale \div RotScale)

\* C3: after N runs of the frame callback the y-rotation of each region is
\* N * 0.0002 (mod 2 pi), the three are equal, whatever was generated.
C3_Rotation ==
  /\ galaxyRef.rotationY % RotTwoPI = (updates * rotationIncrement) % RotTwoPI
  /\ centralBarRef.rotationY = galaxyRef.rotationY
  /\ coreRef.rotationY = galaxyRef.rotationY

\* Frames have run in Ready, with a second generation in between.
C3_Witness ==
  /\ phase = "Ready"
  /\ updates >= 2
  /\ generations >= 2
  /\ galaxyRef.rotationY > 0

NothingShown ==
  /\ armGeometry = NoGeometry
  /\ barGeometry = NoGeometry
  /\ coreGeometry = NoGeometry
  /\ ~galaxyRef.current /\ ~centralBarRef.current /\ ~coreRef.current
  /\ galaxyRef.rotationY = 0 /\ centralBarRef.rotationY = 0
  /\ coreRef.rotationY = 0
  /\ updates = 0

NothingRendered == generations = 0 /\ work = NoWork /\ NothingShown

\* C4: the scene is Loading or Ready and nothing else until it is
\* unmounted; while the texture fetch is in flight nothing is rendered,
\* built or rotated, and nothing is shown in Loading; the commit of a
\* render made with the texture loaded leads to Ready; Ready is left only
\* by unmount; every frame in Ready advances the three rotations.
C4_LoadingThenReady ==
  [][ /\ phase' \in {"Loading", "Ready", "Unmounted"}
      /\ (texture' \in {"idle", "pending"} => NothingRendered')
      /\ (phase' = "Loading" => NothingShown')
      /\ (work # NoWork /\ geometries' # geometries => phase' = "Ready")
      /\ (phase = "Ready" => phase' \in {"Ready", "Unmounted"})
      /\ (phase = "Ready" /\ frames' # frames =>
            /\ galaxyRef'.rotationY = galaxyRef.rotationY + rotationIncrement
            /\ centralBarRef'.rotationY
                 = centralBarRef.rotationY + rotationIncrement
            /\ coreRef'.rotationY = coreRef.rotationY + rotationIncrement)
    ]_vars

\* C5: a frame changes nothing but the rotation of the attached regions:
\* buffers, geometries and texture stay as they are, on the
\* <points> and in a render that waits for its commit, and a detached
\* region is not touched.
C5_FrameOnlyRotates ==
  [][ frames' # frames =>
        /\ geometries' = geometries
        /\ work' = work
        /\ texture' = texture
        /\ materialMap' = materialMap
        /\ generations' = generations
        /\ galaxyRef'.current = galaxyRef.current
        /\ centralBarRef'.current = centralBarRef.current
        /\ coreRef'.current = coreRef.current
        /\ (~galaxyRef.current => galaxyRef' = galaxyRef)
        /\ (~centralBarRef.current => centralBarRef' = centralBarRef)
        /\ (~coreRef.current => coreRef' = coreRef)
    ]_vars

\* A frame has rotated the regions of a built scene.
C5_Witness ==
  /\ phase = "Ready"
  /\ updates >= 1
  /\ coreRef.rotationY >= rotationIncrement
  /\ armGeometry.position.count = armParticlesCount
  /\ barGeometry.color.count = barParticlesCount

\* C6: the point sets are built once per mount, and the buffers of the
\* render primitives are not rebuilt afterwards, whatever renders, load
\* completions and frames follow.
C6_BuiltOnce ==
  [][ /\ generations' <= 1
      /\ (Built => geometries' = geometries)
    ]_vars

\* C7: after a failed texture load the scene stays in Loading, nothing
\* rendered, and is not torn down.
C7_FailureStaysLoading ==
  texture = "failed" => phase = "Loading" /\ NothingShown

\* C8: whatever the draws of an arm iteration, the colour follows the
\* radius band (thresholds 1.2 and 3, probability 0.7), and it is overridden
\* to bright blue exactly when the override draw is < 0.01 and the radius
\* is > 1.2; the iteration pushes the result to the colour buffer.
C8_ArmColour ==
  ArmDone =>
    LET s == Star
        overridden == s.hot < 10000 /\ s.radius > 1200000
    IN  /\ (s.radius < 1200000 => s.starColor = Warm)
        /\ (1200000 <= s.radius /\ s.radius < 3000000 =>
              /\ s.roll \in 0..(Scale - 1)
              /\ (s.roll < 700000 =>
                    /\ s.bandColor.r = 900000 /\ s.bandColor.g = 900000
                    /\ s.bandColor.b \in 800000..1000000)
              /\ (s.roll >= 700000 => s.bandColor = Warm))
        /\ (s.radius >= 3000000 =>
              /\ s.bandColor.r = 1000000
              /\ s.bandColor.g \in 600000..900000
              /\ s.bandColor.b \in 400000..700000)
        /\ (overridden => s.starColor = HotBlue)
        /\ (~overridden => s.starColor = s.bandColor /\ s.starColor # HotBlue)
        /\ iteration.colors = <<s.starColor.r, s.starColor.g, s.starColor.b>>

\* A star of the middle band, blue-white on a roll just under 0.7, that
\* is overridden on an override draw just under 0.01.
C8_Witness ==
  /\ ArmDone
  /\ Star.band = "mid"
  /\ Star.radius > 1200000
  /\ Star.roll = 699999
  /\ Star.bandColor.r = 900000
  /\ Star.hot = 9999
  /\ Star.starColor = HotBlue
  /\ iteration.colors = <<700000, 800000, 1000000>>

\* C9: whatever the draws of a bar iteration, x is in
\* [-barLength, barLength], untapered y in [-0.1, 0.1], untapered z in
\* [-barWidth/2, barWidth/2], the taper in [0,1], 1 at x = 0 and 0 at
\* |x| = barLength, stored |y| <= 0.1 * taper and
\* |z| <= (barWidth/2) * taper; the iteration pushes (x, y, z) tapered.
C9_BarTaper ==
  BarDone =>
    LET s == Star
    IN  /\ -barLength <= s.x /\ s.x <= barLength
        /\ -100000 <= s.y /\ s.y <= 100000
        /\ 2 * Abs(s.z) <= barWidth
        /\ 0 <= s.taperFactor /\ s.taperFactor <= Scale
        /\ (s.x = 0 =>
              /\ s.taperFactor = Scale
              /\ s.adjustedY = s.y /\ s.adjustedZ = s.z)
        /\ (Abs(s.x) = barLength =>
              /\ s.taperFactor = 0
              /\ s.adjustedY = 0 /\ s.adjustedZ = 0)
        /\ Abs(s.adjustedY) <= FMul(100000, s.taperFactor)
        /\ Abs(s.adjustedZ) <= FMul(barWidth \div 2, s.taperFactor)
        /\ iteration.positions = <<s.x, s.adjustedY, s.adjustedZ>>

\* A bar sample at the end of the bar, drawn off the axis and brought onto
\* it by the taper.
C9_Witness ==
  /\ BarDone
  /\ Star.x = -barLength
  /\ Star.y # 0 /\ Star.z # 0
  /\ iteration.positions = <<-barLength, 0, 0>>

\* The arm loop is over.
ArmLoopOver == loop \in {"bar", "core", "done"}

\* C10: sample i is on arm (i mod arms), whose base angle is
\* 2 pi * arm / arms; the angle is within half the random factor of
\* base angle + radius * spiralStrength; the random factor is
\* 0.2 + 0.6 * radius / diskRadius, so the jitter is at most 0.4; after the
\* loop the arms differ by at most one sample and, when the count is a
\* multiple of arms, every arm has count / arms samples.
C10_ArmAssignment ==
  /\ (ArmDone =>
        LET s == Star
            jitter == s.angle - (s.baseAngle + FMul(s.radius, spiralStrength))
        IN  /\ s.i = index
            /\ s.branch = index % arms
            /\ s.branch \in 0..(arms - 1)
            /\ Abs(arms * s.baseAngle - TwoPI * s.branch) <= 2 * arms
            /\ 200000 <= s.randomFactor /\ s.randomFactor <= 800000
            /\ Abs(25 * (s.randomFactor - 200000) - 3 * s.radius) <= 50
            /\ 2 * Abs(jitter) <= s.randomFactor
            /\ Abs(jitter) <= 400000)
  /\ (ArmLoopOver /\ armParticlesCount % arms = 0 =>
        \A b \in 0..(arms - 1) : tally[b] = armParticlesCount \div arms)
  /\ (ArmLoopOver =>
        \A b, c \in 0..(arms - 1) : tally[b] - tally[c] \in {-1, 0, 1})

\* The last sample of the loop: its index has wrapped around the arms, it
\* is the second sample of its arm, at the edge of the disk with the jitter
\* near its bound.
C10_Witness ==
  /\ ArmDone
  /\ Star.i >= arms
  /\ Star.branch = Star.i - arms
  /\ tally[Star.branch] >= 2
  /\ Star.randomFactor > 790000
  /\ Star.angle - Star.baseAngle - Star.angleOffset > 390000

====
